---- MODULE Spec2Model ----
(***************************************************************************)
(* GoogleStorage, the Google Cloud Storage driver of adonis-drive-google   *)
(* (src/src/Drivers/index.js).  One adapter instance, shared by the        *)
(* callers of Callers; every method is one action, every backend callback  *)
(* is one action.  A JavaScript turn runs to completion: `running` names   *)
(* the caller whose synchronous expression  bucket(b).op(...)  is under    *)
(* way.  Promise executors run inside the method call, so the selector     *)
(* read of a method and the dispatch of its first request are one step.    *)
(***************************************************************************)
EXTENDS Naturals, Sequences, FiniteSets, TLC

\* ------------------------------------------------------------------ bounds
\* config.bucket
DefaultBucket == "main"
\* The bucket names, the object keys, the errors the backend delivers and the
\* readings of the clock (download's path).
Buckets == {"main", "alt"}
Locations == {"x", "y"}
Errors == {"E1", "E2"}
Times == {"1", "2"}
\* The callers sharing the instance under Spec: c1 uses every method, c2 only
\* bucket() and put(), the method whose call and whose callback both read the
\* selector; they work on the keys of SharedKeys.
Callers == {"c1", "c2"}
Clients == {"c1"}
SharedKeys == {"x"}
\* The single caller of SpecSeq, which uses every method on every key.
Sequential == {"c1"}
\* How many selector-reading calls after a bucket() call are told apart.
MaxTracked == 2

\* Not modelled: object contents and ACLs (upload's and copy's options reach the
\* backend unread by the adapter), the expiry of a signed URL, and the local disk
\* that download writes to.

NoBucket == ""
NoError == ""
NoCaller == "nobody"

VARIABLES _bucket, objs, chain, running, hist, last, keys

vars == <<_bucket, objs, chain, running, hist, last, keys>>

\* ------------------------------------------------------------ the selector
\* new Resetable(config.bucket): the value starts as the default.
ResetableNew(default) == default

\* Resetable.set(bucket), called by bucket(bucket).
ResetableSet(s, bucket) == bucket

\* Resetable.pull(): hands out the current value and falls back to the default.
pull(s) == [value |-> s, rest |-> DefaultBucket]

\* ------------------------------------------------------------- the backend
Obj(b, l) == <<b, l>>

\* The requests the client library can complete without the object existing.
NeedsObject(api) == api \in {"delete", "copy", "move", "makePublic", "makePrivate", "get", "download"}

CanSucceed(r, os) == NeedsObject(r.api) => Obj(r.bucket, r.location) \in os

\* File.move of the client library: copy to the destination, then delete the
\* source.  A move of an object onto itself either deletes it (the copy-then-delete
\* of the 1.x client) or leaves it (later clients skip the delete).
BackendMove(r, os) ==
  IF Obj(r.bucket, r.location) = Obj(r.destBucket, r.dest)
  THEN {os \ {Obj(r.bucket, r.location)}, os}
  ELSE {(os \cup {Obj(r.destBucket, r.dest)}) \ {Obj(r.bucket, r.location)}}

\* The objects the backend may hold after request r succeeded.
ObjsAfter(r, os) ==
  CASE r.api = "upload" -> {os \cup {Obj(r.bucket, r.location)}}
    [] r.api = "delete" -> {os \ {Obj(r.bucket, r.location)}}
    [] r.api = "copy" -> {os \cup {Obj(r.destBucket, r.dest)}}
    [] r.api = "move" -> BackendMove(r, os)
    [] OTHER -> {os}

BoolStr(b) == IF b THEN "true" ELSE "false"

\* What the backend hands to the callback of a successful request.
Answer(r, os) ==
  CASE r.api = "exists" -> BoolStr(Obj(r.bucket, r.location) \in os)
    [] r.api = "getSignedUrl" -> "signed:" \o r.bucket \o "/" \o r.location
    [] r.api = "get" -> "file:" \o r.bucket \o "/" \o r.location
    [] OTHER -> "ok"

Request(api, bucket, location, dest, destBucket, public) ==
  [api |-> api, bucket |-> bucket, location |-> location, dest |-> dest,
   destBucket |-> destBucket, public |-> public]

\* ------------------------------------------------------------- the adapter
\* A caller's slot: the operation it called last, and that call's promise.
Idle ==
  [kind |-> "none", location |-> "", dest |-> "", argBucket |-> NoBucket,
   destBucket |-> NoBucket, public |-> FALSE, bucket |-> NoBucket,
   phase |-> "idle", state |-> "none", value |-> "", error |-> NoError,
   failed |-> NoError, failedReq |-> 0, pulls |-> 0, reqs |-> <<>>, settles |-> 0,
   follows |-> <<>>]

Min(a, b) == IF a < b THEN a ELSE b

InFlight(c) == chain[c].phase \in {"primary", "publicize"}

\* A caller awaits its operation; a turn in progress excludes every other step.
MayCall(c) == ~InFlight(c) /\ running \in {NoCaller, c}

\* What has happened on the instance since the latest bucket() call: its argument,
\* the calls since that read the selector, the caller whose override is waiting,
\* and the caller whose override another caller's call has taken.
NoHistory == [armedBy |-> NoBucket, since |-> 0, owner |-> NoCaller, robbed |-> NoCaller]

\* The latest operation call on the instance since the latest bucket() call.
NoCall == [caller |-> NoCaller, took |-> "", wasRobbed |-> FALSE, chained |-> NoBucket]

\* Whose override a call of caller c takes, when it reads the selector.
Took(c, pulled) ==
  IF pulled /\ hist.owner # NoCaller
  THEN IF c = hist.owner THEN "own" ELSE "stolen"
  ELSE ""

AfterCall(c, pulled) ==
  [hist EXCEPT
     !.since = IF hist.armedBy # NoBucket /\ pulled THEN Min(@ + 1, MaxTracked) ELSE @,
     !.owner = IF pulled THEN NoCaller ELSE @,
     !.robbed = IF Took(c, pulled) = "stolen" THEN hist.owner
                ELSE IF c = @ /\ pulled THEN NoCaller ELSE @]

\* exists() called right after this caller's move(src, dest) resolved.
Follows(c) ==
  LET p == chain[c] IN
  IF p.kind = "move" /\ p.state = "resolved" /\ p.argBucket = NoBucket
     /\ p.bucket = DefaultBucket /\ _bucket = DefaultBucket
  THEN <<p.location, p.dest>>
  ELSE IF p.kind = "exists" /\ p.state = "resolved" /\ _bucket = DefaultBucket
  THEN p.follows
  ELSE <<>>

\* The template of getUrl.
Url(bucket, location) == "https://storage.googleapis.com/" \o bucket \o "/" \o location

\* getUrl taking the bucket from the selector whatever its argument.
getUrlIgnoresArg(location, bucket, s) ==
  [url |-> Url(pull(s).value, location), bucket |-> pull(s).value,
   sel |-> pull(s).rest, pulls |-> 1]

\* getUrl(location, bucket):  bucket = bucket || this._bucket.pull()
getUrl(location, bucket, s) ==
  IF bucket # NoBucket
  THEN [url |-> Url(bucket, location), bucket |-> bucket, sel |-> s, pulls |-> 0]
  ELSE [url |-> Url(pull(s).value, location), bucket |-> pull(s).value,
        sel |-> pull(s).rest, pulls |-> 1]

\* resolve(value) of the operation's promise; a settled promise stays as it is.
Resolve(rec, value) ==
  IF rec.state = "pending"
  THEN [rec EXCEPT !.state = "resolved", !.value = value, !.settles = @ + 1, !.phase = "settled"]
  ELSE [rec EXCEPT !.settles = @ + 1, !.phase = "settled"]

\* reject(error) of the operation's promise.
Reject(rec, error) ==
  IF rec.state = "pending"
  THEN [rec EXCEPT !.state = "rejected", !.error = error, !.settles = @ + 1, !.phase = "settled"]
  ELSE [rec EXCEPT !.settles = @ + 1, !.phase = "settled"]

\* A call that sends its request to config.bucket whatever the selector holds.
DispatchDefault(c, kind, api, location, dest, argBucket, public) ==
  LET destBucket == IF argBucket # NoBucket THEN argBucket ELSE DefaultBucket
  IN [Idle EXCEPT !.kind = kind, !.location = location, !.dest = dest,
        !.argBucket = argBucket, !.destBucket = destBucket, !.public = public,
        !.bucket = DefaultBucket, !.phase = "primary", !.state = "pending", !.pulls = 1,
        !.reqs = <<Request(api, DefaultBucket, location, dest, destBucket, public)>>]

\* The record of a call that sends one request to the bucket the selector gives.
Dispatch(c, kind, api, location, dest, argBucket, public) ==
  LET p == pull(_bucket)
      destBucket == IF argBucket # NoBucket THEN argBucket ELSE p.value
  IN [Idle EXCEPT !.kind = kind, !.location = location, !.dest = dest,
        !.argBucket = argBucket, !.destBucket = destBucket, !.public = public,
        !.bucket = p.value, !.phase = "primary", !.state = "pending", !.pulls = 1,
        !.reqs = <<Request(api, p.value, location, dest, destBucket, public)>>]

Called(c, rec) ==
  /\ chain' = [chain EXCEPT ![c] = rec]
  /\ running' = NoCaller
  /\ hist' = AfterCall(c, rec.pulls > 0)
  /\ last' = [caller |-> c, took |-> Took(c, rec.pulls > 0),
              wasRobbed |-> (c = hist.robbed /\ rec.pulls > 0),
              chained |-> IF running = c THEN hist.armedBy ELSE NoBucket]

\* bucket(bucket): sets the selector; chainedCall tells whether the caller goes on
\* to its operation in the same turn, as in  bucket(b).exists(l).
Bucket(c, bucket, chainedCall) ==
  /\ MayCall(c)
  /\ _bucket' = ResetableSet(_bucket, bucket)
  /\ hist' = [hist EXCEPT !.armedBy = bucket, !.since = 0, !.owner = c, !.robbed = NoCaller]
  /\ last' = NoCall
  /\ running' = IF chainedCall THEN c ELSE NoCaller
  /\ UNCHANGED <<objs, chain, keys>>

\* exists reading the selector without resetting it.
existsKeepsOverride(c, location) ==
  /\ MayCall(c)
  /\ Called(c, [Dispatch(c, "exists", "exists", location, "", NoBucket, FALSE)
                  EXCEPT !.follows = Follows(c)])
  /\ UNCHANGED <<_bucket, objs, keys>>

\* exists(location)
exists(c, location) ==
  /\ MayCall(c)
  /\ Called(c, [Dispatch(c, "exists", "exists", location, "", NoBucket, FALSE)
                  EXCEPT !.follows = Follows(c)])
  /\ _bucket' = pull(_bucket).rest
  /\ UNCHANGED <<objs, keys>>

\* getUrl(location, bucket): synchronous, sends nothing.
getUrlCall(c, location, bucket) ==
  /\ MayCall(c)
  /\ LET g == getUrl(location, bucket, _bucket)
     IN /\ Called(c, [Idle EXCEPT !.kind = "getUrl", !.location = location,
                        !.argBucket = bucket, !.bucket = g.bucket, !.phase = "settled",
                        !.state = "returned", !.value = g.url, !.pulls = g.pulls])
        /\ _bucket' = g.sel
  /\ UNCHANGED <<objs, keys>>

\* getSignedUrl(location, expiry)
getSignedUrl(c, location) ==
  /\ MayCall(c)
  /\ Called(c, Dispatch(c, "getSignedUrl", "getSignedUrl", location, "", NoBucket, FALSE))
  /\ _bucket' = pull(_bucket).rest
  /\ UNCHANGED <<objs, keys>>

\* put reading the selector without resetting it.
putKeepsOverride(c, location) ==
  /\ MayCall(c)
  /\ Called(c, Dispatch(c, "put", "upload", location, "", NoBucket, FALSE))
  /\ UNCHANGED <<_bucket, objs, keys>>

\* put(location, content, options)
put(c, location) ==
  /\ MayCall(c)
  /\ Called(c, Dispatch(c, "put", "upload", location, "", NoBucket, FALSE))
  /\ _bucket' = pull(_bucket).rest
  /\ UNCHANGED <<objs, keys>>

\* delete(location)
delete(c, location) ==
  /\ MayCall(c)
  /\ Called(c, Dispatch(c, "delete", "delete", location, "", NoBucket, FALSE))
  /\ _bucket' = pull(_bucket).rest
  /\ UNCHANGED <<objs, keys>>

\* copy(src, dest, destBucket, options)
copy(c, src, dest, destBucket, public) ==
  /\ MayCall(c)
  /\ Called(c, Dispatch(c, "copy", "copy", src, dest, destBucket, public))
  /\ _bucket' = pull(_bucket).rest
  /\ UNCHANGED <<objs, keys>>

\* move sending the backend's copy instead of its move.
moveAsCopy(c, src, dest, destBucket, public) ==
  /\ MayCall(c)
  /\ Called(c, [Dispatch(c, "copy", "copy", src, dest, destBucket, public) EXCEPT !.kind = "move"])
  /\ _bucket' = pull(_bucket).rest
  /\ UNCHANGED <<objs, keys>>

\* move(src, dest, destBucket, options)
move(c, src, dest, destBucket, public) ==
  /\ MayCall(c)
  /\ Called(c, Dispatch(c, "move", "move", src, dest, destBucket, public))
  /\ _bucket' = pull(_bucket).rest
  /\ UNCHANGED <<objs, keys>>

\* makePublic(location)
makePublic(c, location) ==
  /\ MayCall(c)
  /\ Called(c, Dispatch(c, "makePublic", "makePublic", location, "", NoBucket, FALSE))
  /\ _bucket' = pull(_bucket).rest
  /\ UNCHANGED <<objs, keys>>

\* makePrivate(location)
makePrivate(c, location) ==
  /\ MayCall(c)
  /\ Called(c, Dispatch(c, "makePrivate", "makePrivate", location, "", NoBucket, FALSE))
  /\ _bucket' = pull(_bucket).rest
  /\ UNCHANGED <<objs, keys>>

\* getStream(location): synchronous, hands back the stream of the object.
getStream(c, location) ==
  /\ MayCall(c)
  /\ LET d == Dispatch(c, "getStream", "createReadStream", location, "", NoBucket, FALSE)
     IN Called(c, [d EXCEPT !.phase = "settled", !.state = "returned",
                     !.value = "stream:" \o d.bucket \o "/" \o location])
  /\ _bucket' = pull(_bucket).rest
  /\ UNCHANGED <<objs, keys>>

\* getObject(location)
getObject(c, location) ==
  /\ MayCall(c)
  /\ Called(c, Dispatch(c, "getObject", "get", location, "", NoBucket, FALSE))
  /\ _bucket' = pull(_bucket).rest
  /\ UNCHANGED <<objs, keys>>

\* download(location): the path is made from the clock, the directory on demand.
download(c, location, now) ==
  /\ MayCall(c)
  /\ Called(c, Dispatch(c, "download", "download", location,
                        "tmp/" \o now \o "-" \o location, NoBucket, FALSE))
  /\ _bucket' = pull(_bucket).rest
  /\ UNCHANGED <<objs, keys>>

\* ---------------------------------------------------------- the callbacks
\* A callback that rejects with a new error made from the backend's.
PlainWraps(rec, error, value, s) ==
  IF error # NoError
  THEN [rec |-> Reject(rec, "Error: " \o error), sel |-> s]
  ELSE [rec |-> Resolve(rec, value), sel |-> s]

\* (error, result) => error ? reject(error) : resolve(value)
Plain(rec, error, value, s) ==
  IF error # NoError
  THEN [rec |-> Reject(rec, error), sel |-> s]
  ELSE [rec |-> Resolve(rec, value), sel |-> s]

existsCallback(rec, error, answer, s) == Plain(rec, error, answer, s)

getSignedUrlCallback(rec, error, answer, s) == Plain(rec, error, answer, s)

deleteCallback(rec, error, answer, s) == Plain(rec, error, "true", s)

makePublicCallback(rec, error, answer, s) == Plain(rec, error, "true", s)

makePrivateCallback(rec, error, answer, s) == Plain(rec, error, "true", s)

getObjectCallback(rec, error, answer, s) == Plain(rec, error, answer, s)

downloadCallback(rec, error, answer, s) == Plain(rec, error, rec.dest, s)

\* put:  resolve(this.getUrl(location, this._bucket.pull()))
putCallback(rec, error, answer, s) ==
  IF error # NoError
  THEN [rec |-> Reject(rec, error), sel |-> s]
  ELSE LET p == pull(s)
           g == getUrl(rec.location, p.value, p.rest)
       IN [rec |-> Resolve([rec EXCEPT !.pulls = @ + 1 + g.pulls], g.url), sel |-> g.sel]

\* this.makePublic(dest), called from the callback of copy and of move.
Publicize(rec, s) ==
  LET p == pull(s)
  IN [rec |-> [rec EXCEPT !.phase = "publicize", !.pulls = @ + 1,
                 !.reqs = Append(@, Request("makePublic", p.value, rec.dest, "", NoBucket, FALSE))],
      sel |-> p.rest]

\* The callback of copy and of move.
copyCallback(rec, error, answer, s) ==
  IF error # NoError
  THEN [rec |-> Reject(rec, error), sel |-> s]
  ELSE IF rec.public
  THEN Publicize(rec, s)
  ELSE LET g == getUrl(rec.dest, rec.destBucket, s)
       IN [rec |-> Resolve([rec EXCEPT !.pulls = @ + g.pulls], g.url), sel |-> g.sel]

moveCallback(rec, error, answer, s) == copyCallback(rec, error, answer, s)

\* A publicize step whose failure is swallowed.
PublicizedIgnoresError(rec, error, answer, s) ==
  [rec |-> Resolve(rec, getUrl(rec.dest, rec.destBucket, s).url), sel |-> s]

\* makePublic(dest).then(data => resolve(getUrl(dest, destBucket))).catch(err => reject(err))
publicized(rec, error, answer, s) ==
  IF error # NoError
  THEN [rec |-> Reject(rec, error), sel |-> s]
  ELSE LET g == getUrl(rec.dest, rec.destBucket, s)
       IN [rec |-> Resolve([rec EXCEPT !.pulls = @ + g.pulls], g.url), sel |-> g.sel]

\* The request of the operation that is out at the backend.
Out(rec) == rec.reqs[Len(rec.reqs)]

\* The callback the operation handed to the backend with its request.
Callback(rec, error, answer, s) ==
  CASE rec.phase = "publicize" -> publicized(rec, error, answer, s)
    [] rec.kind = "exists" -> existsCallback(rec, error, answer, s)
    [] rec.kind = "getSignedUrl" -> getSignedUrlCallback(rec, error, answer, s)
    [] rec.kind = "put" -> putCallback(rec, error, answer, s)
    [] rec.kind = "delete" -> deleteCallback(rec, error, answer, s)
    [] rec.kind = "copy" -> copyCallback(rec, error, answer, s)
    [] rec.kind = "move" -> moveCallback(rec, error, answer, s)
    [] rec.kind = "makePublic" -> makePublicCallback(rec, error, answer, s)
    [] rec.kind = "makePrivate" -> makePrivateCallback(rec, error, answer, s)
    [] rec.kind = "getObject" -> getObjectCallback(rec, error, answer, s)
    [] rec.kind = "download" -> downloadCallback(rec, error, answer, s)

\* The backend answers the request of caller c and the callback runs.
Completes(c, kind, phase) ==
  /\ running = NoCaller
  /\ chain[c].kind = kind
  /\ chain[c].phase = phase
  /\ \E error \in Errors \cup {NoError} :
       LET rec == chain[c]
           r == Out(rec)
           out == Callback(rec, error, Answer(r, objs), _bucket)
       IN /\ error = NoError => CanSucceed(r, objs)
          /\ objs' \in IF error = NoError THEN ObjsAfter(r, objs) ELSE {objs}
          /\ chain' = [chain EXCEPT ![c] =
                         IF error = NoError THEN out.rec
                         ELSE [out.rec EXCEPT !.failed = error, !.failedReq = Len(rec.reqs)]]
          /\ _bucket' = out.sel
          /\ hist' = [hist EXCEPT !.owner = IF out.rec.pulls = rec.pulls THEN @ ELSE NoCaller]
  /\ UNCHANGED <<running, last, keys>>

existsDone(c) == Completes(c, "exists", "primary")

getSignedUrlDone(c) == Completes(c, "getSignedUrl", "primary")

putDone(c) == Completes(c, "put", "primary")

deleteDone(c) == Completes(c, "delete", "primary")

copyDone(c) == Completes(c, "copy", "primary")

moveDone(c) == Completes(c, "move", "primary")

copyPublicized(c) == Completes(c, "copy", "publicize")

movePublicized(c) == Completes(c, "move", "publicize")

makePublicDone(c) == Completes(c, "makePublic", "primary")

makePrivateDone(c) == Completes(c, "makePrivate", "primary")

getObjectDone(c) == Completes(c, "getObject", "primary")

downloadDone(c) == Completes(c, "download", "primary")

\* File.move copied the object and then failed to delete the source.
moveHalfDone(c) ==
  /\ running = NoCaller
  /\ chain[c].kind = "move"
  /\ chain[c].phase = "primary"
  /\ CanSucceed(Out(chain[c]), objs)
  /\ \E error \in Errors :
       LET rec == chain[c]
           r == [Out(rec) EXCEPT !.api = "copy"]
           out == moveCallback(rec, error, "ok", _bucket)
       IN /\ objs' \in ObjsAfter(r, objs)
          /\ chain' = [chain EXCEPT ![c] =
                         [out.rec EXCEPT !.failed = error, !.failedReq = Len(rec.reqs)]]
          /\ _bucket' = out.sel
          /\ hist' = [hist EXCEPT !.owner = IF out.rec.pulls = rec.pulls THEN @ ELSE NoCaller]
  /\ UNCHANGED <<running, last, keys>>

Init ==
  /\ _bucket = ResetableNew(DefaultBucket)
  /\ objs = {}
  /\ chain = [c \in Callers |-> Idle]
  /\ running = NoCaller
  /\ hist = NoHistory
  /\ last = NoCall
  /\ keys = SharedKeys

\* One caller that awaits every operation before its next call.
InitSeq ==
  /\ _bucket = ResetableNew(DefaultBucket)
  /\ objs = {}
  /\ chain = [c \in Sequential |-> Idle]
  /\ running = NoCaller
  /\ hist = NoHistory
  /\ last = NoCall
  /\ keys = Locations

Next ==
  \/ \E c \in DOMAIN chain, b \in Buckets, ch \in BOOLEAN : Bucket(c, b, ch)
  \/ \E c \in DOMAIN chain \cap Clients, l \in keys : exists(c, l)
  \/ \E c \in DOMAIN chain \cap Clients, l \in keys, b \in Buckets \cup {NoBucket} : getUrlCall(c, l, b)
  \/ \E c \in DOMAIN chain \cap Clients, l \in keys : getSignedUrl(c, l)
  \/ \E c \in DOMAIN chain, l \in keys : put(c, l)
  \/ \E c \in DOMAIN chain \cap Clients, l \in keys : delete(c, l)
  \/ \E c \in DOMAIN chain \cap Clients, s \in keys, d \in keys,
        b \in Buckets \cup {NoBucket}, p \in BOOLEAN : copy(c, s, d, b, p)
  \/ \E c \in DOMAIN chain \cap Clients, s \in keys, d \in keys,
        b \in Buckets \cup {NoBucket}, p \in BOOLEAN : move(c, s, d, b, p)
  \/ \E c \in DOMAIN chain \cap Clients, l \in keys : makePublic(c, l)
  \/ \E c \in DOMAIN chain \cap Clients, l \in keys : makePrivate(c, l)
  \/ \E c \in DOMAIN chain \cap Clients, l \in keys : getStream(c, l)
  \/ \E c \in DOMAIN chain \cap Clients, l \in keys : getObject(c, l)
  \/ \E c \in DOMAIN chain \cap Clients, l \in keys, now \in Times : download(c, l, now)
  \/ \E c \in DOMAIN chain \cap Clients : existsDone(c)
  \/ \E c \in DOMAIN chain \cap Clients : getSignedUrlDone(c)
  \/ \E c \in DOMAIN chain : putDone(c)
  \/ \E c \in DOMAIN chain \cap Clients : deleteDone(c)
  \/ \E c \in DOMAIN chain \cap Clients : copyDone(c)
  \/ \E c \in DOMAIN chain \cap Clients : moveDone(c)
  \/ \E c \in DOMAIN chain \cap Clients : moveHalfDone(c)
  \/ \E c \in DOMAIN chain \cap Clients : copyPublicized(c)
  \/ \E c \in DOMAIN chain \cap Clients : movePublicized(c)
  \/ \E c \in DOMAIN chain \cap Clients : makePublicDone(c)
  \/ \E c \in DOMAIN chain \cap Clients : makePrivateDone(c)
  \/ \E c \in DOMAIN chain \cap Clients : getObjectDone(c)
  \/ \E c \in DOMAIN chain \cap Clients : downloadDone(c)

Spec == Init /\ [][Next]_vars

SpecSeq == InitSeq /\ [][Next]_vars

\* ------------------------------------------------------------- properties
PromiseKinds ==
  {"exists", "getSignedUrl", "put", "delete", "copy", "move", "makePublic",
   "makePrivate", "getObject", "download"}

\* The record of the latest call.
Latest == chain[last.caller]

\* C1 (as amended): after bucket(b), the first call that reads the selector acts on
\* b, every later one acts on the default bucket, and once such a call was made the
\* selector holds the default until bucket() is called again; getUrl with a bucket
\* argument uses the argument and leaves the override waiting.
C1_OneShotOverride ==
  /\ hist.since >= 1 => _bucket = DefaultBucket
  /\ last.caller # NoCaller /\ hist.armedBy # NoBucket =>
       /\ Latest.pulls > 0 /\ hist.since = 1 => Latest.bucket = hist.armedBy
       /\ Latest.pulls > 0 /\ hist.since >= 2 => Latest.bucket = DefaultBucket
       /\ Latest.pulls = 0 => Latest.bucket = Latest.argBucket
       /\ Latest.pulls = 0 /\ hist.since = 0 => _bucket = hist.armedBy

\* C1 witness: the second reading call after bucket("alt") went to the default bucket.
C1_Witness ==
  /\ last.caller # NoCaller
  /\ hist.armedBy = "alt"
  /\ hist.since = 2
  /\ Latest.pulls > 0
  /\ Latest.bucket = DefaultBucket

\* C1 as stated: after any operation was called, the pending override is empty.
C1_AsStated == last.caller # NoCaller => _bucket = DefaultBucket

\* C2 as stated: put, copy and move read the selector once per call, completion
\* callback and publicize step included.
C2_ReadOnce ==
  \A c \in DOMAIN chain :
    chain[c].kind \in {"put", "copy", "move"} => chain[c].pulls = 1

\* C3 as stated: put resolves to the URL of the object in the bucket the upload
\* went to.
C3_PutUrl ==
  \A c \in DOMAIN chain :
    chain[c].kind = "put" /\ chain[c].state = "resolved" =>
      chain[c].value =
        "https://storage.googleapis.com/" \o chain[c].reqs[1].bucket \o "/" \o chain[c].location

\* C4 as stated: when copy(src, dest, destBucket, {public: true}) resolves, dest in
\* destBucket exists, the publicize request was made for it, and the value is its URL.
C4_CopyPublic ==
  \A c \in DOMAIN chain :
    chain[c].kind = "copy" /\ chain[c].public /\ chain[c].state = "resolved" =>
      /\ Obj(chain[c].destBucket, chain[c].dest) \in objs
      /\ Len(chain[c].reqs) = 2
      /\ chain[c].reqs[2].api = "makePublic"
      /\ Obj(chain[c].reqs[2].bucket, chain[c].reqs[2].location)
           = Obj(chain[c].destBucket, chain[c].dest)
      /\ chain[c].value =
           "https://storage.googleapis.com/" \o chain[c].destBucket \o "/" \o chain[c].dest

\* A copy or move whose backend request succeeded and whose makePublic failed.
PublicizeFailed(rec) ==
  /\ rec.kind \in {"copy", "move"}
  /\ rec.public
  /\ Len(rec.reqs) = 2
  /\ rec.failed # NoError

\* C5: when the copy or move succeeds and the makePublic after it fails, the promise
\* rejects with the makePublic error, no URL is returned, nothing is sent to undo
\* the copy or move, and the destination object is there.
C5_NonCompensating ==
  \A c \in DOMAIN chain :
    PublicizeFailed(chain[c]) =>
      /\ chain[c].state = "rejected"
      /\ chain[c].error = chain[c].failed
      /\ chain[c].value = ""
      /\ chain[c].reqs[1].api = chain[c].kind
      /\ chain[c].reqs[2].api = "makePublic"
      /\ chain[c].phase = "settled"
      /\ \/ Obj(chain[c].destBucket, chain[c].dest) \in objs
         \/ /\ chain[c].kind = "move"
            /\ Obj(chain[c].bucket, chain[c].location) = Obj(chain[c].destBucket, chain[c].dest)

\* C5 witness: a copy across buckets is rejected with the makePublic error E2 and
\* its destination object exists.
C5_Witness ==
  \E c \in DOMAIN chain :
    /\ PublicizeFailed(chain[c])
    /\ chain[c].kind = "copy"
    /\ chain[c].destBucket = "alt"
    /\ chain[c].error = "E2"
    /\ Obj("alt", chain[c].dest) \in objs

\* C6: an override set by one caller is taken by whichever caller reads the selector
\* first: by its setter, or by another caller, whose operation then acts on the
\* override while the setter's next operation acts on the default bucket.
C6_SharedOverride ==
  last.caller # NoCaller =>
    /\ last.took = "own" => Latest.bucket = hist.armedBy
    /\ last.took = "stolen" => Latest.bucket = hist.armedBy /\ hist.robbed # last.caller
    /\ last.wasRobbed => Latest.bucket = DefaultBucket

\* C6 witness: c1 set "alt", c2's put took it, and c1's operation went to the default.
C6_Witness ==
  /\ last.caller = "c1"
  /\ last.wasRobbed
  /\ hist.armedBy = "alt"
  /\ chain["c1"].bucket = DefaultBucket
  /\ chain["c2"].bucket = "alt"

\* C7: getUrl(location, b) returns https://storage.googleapis.com/{b}/{location},
\* sends nothing and leaves the backend as it is, whether or not the object exists.
C7_GetUrl ==
  [][\A c \in DOMAIN chain :
       chain'[c] # chain[c] /\ chain'[c].kind = "getUrl" /\ chain'[c].argBucket # NoBucket =>
         /\ chain'[c].value =
              "https://storage.googleapis.com/" \o chain'[c].argBucket \o "/" \o chain'[c].location
         /\ chain'[c].reqs = <<>>
         /\ objs' = objs]_vars

\* C7 witness: the URL of an object that does not exist.
C7_Witness ==
  \E c \in DOMAIN chain :
    /\ chain[c].kind = "getUrl"
    /\ chain[c].argBucket = "alt"
    /\ chain[c].value = "https://storage.googleapis.com/alt/" \o chain[c].location
    /\ Obj("alt", chain[c].location) \notin objs

\* C8: a promise is settled once; an operation whose request failed rejects with the
\* error the backend delivered for that request and sends nothing after it.
C8_ErrorsVerbatim ==
  \A c \in DOMAIN chain :
    chain[c].kind \in PromiseKinds =>
      /\ chain[c].state = "pending" => chain[c].settles = 0 /\ InFlight(c)
      /\ chain[c].state \in {"resolved", "rejected"} => chain[c].settles = 1 /\ ~InFlight(c)
      /\ chain[c].state = "rejected" <=> chain[c].failed # NoError
      /\ chain[c].failed # NoError =>
           /\ chain[c].error = chain[c].failed
           /\ Len(chain[c].reqs) = chain[c].failedReq

\* C8 witness: a download rejected with the backend's error E2.
C8_Witness ==
  \E c \in DOMAIN chain :
    /\ chain[c].kind = "download"
    /\ chain[c].state = "rejected"
    /\ chain[c].error = "E2"
    /\ chain[c].settles = 1

\* C9 (as amended): after move(src, dest) with src # dest resolved, exists(src)
\* resolves false and exists(dest) resolves true.
C9_MoveThenExists ==
  \A c \in DOMAIN chain :
    /\ chain[c].kind = "exists"
    /\ chain[c].state = "resolved"
    /\ chain[c].follows # <<>>
    /\ chain[c].follows[1] # chain[c].follows[2]
    => /\ chain[c].location = chain[c].follows[1] => chain[c].value = "false"
       /\ chain[c].location = chain[c].follows[2] => chain[c].value = "true"

\* C9 witness: exists("x") resolved false after move("x", "y") resolved.
C9_Witness ==
  \E c \in DOMAIN chain :
    /\ chain[c].kind = "exists"
    /\ chain[c].state = "resolved"
    /\ chain[c].follows = <<"x", "y">>
    /\ chain[c].location = "x"
    /\ chain[c].value = "false"

\* C9 as stated: for every src and dest, dest = src included.
C9_AsStated ==
  \A c \in DOMAIN chain :
    /\ chain[c].kind = "exists"
    /\ chain[c].state = "resolved"
    /\ chain[c].follows # <<>>
    => /\ chain[c].location = chain[c].follows[1] => chain[c].value = "false"
       /\ chain[c].location = chain[c].follows[2] => chain[c].value = "true"

\* C10: the first request of an operation chained to bucket(b) in one expression
\* goes to b, whatever else is in flight on the instance.
C10_ChainedCall ==
  last.chained # NoBucket =>
    /\ Latest.reqs # <<>> => Latest.reqs[1].bucket = last.chained
    /\ Latest.argBucket = NoBucket \/ Latest.kind # "getUrl" => Latest.bucket = last.chained

\* C10 witness: bucket("alt").copy(...) sent its request to "alt" while the other
\* caller's upload was out.
C10_Witness ==
  /\ last.chained = "alt"
  /\ last.caller = "c1"
  /\ chain["c1"].kind = "copy"
  /\ chain["c1"].reqs[1].bucket = "alt"
  /\ InFlight("c2")
====
